---- MODULE Spec2Model ----
(***************************************************************************)
(* Model of forensic_carver.py: the format plugins (JPEG, PDF, ZIP), the   *)
(* top-level scan loop Carver._scan and the embedded scan loop             *)
(* Carver._scan_memory_for_embedded.  Offsets are 0-based as in the        *)
(* program; a buffer is a sequence of byte values, so offset i is buf[i+1].*)
(***************************************************************************)
EXTENDS Integers, Sequences, FiniteSets, TLC

VARIABLES
    buf,            \* the image mapped by Carver.run (sequence of bytes)
    formats,        \* opts.formats, the ordered list of enabled format tags
    max_size,       \* opts.max_size
    embedded_depth, \* opts.embedded_depth
    fragmented,     \* opts.fragmented
    scan_windows,   \* opts.scan_windows, a function from format tags to spans
    records,        \* Carver.records
    files,          \* what _emit_file has written: out_path -> bytes
    pc,             \* "scan", "embedded", "done" (Carver) or "footer", "called"
    pi,             \* position of the loop `for plugin in self.plugins` of _scan
    off,            \* cursor `off` of _scan
    emb,            \* frame of _scan_memory_for_embedded while it runs
    call            \* the plugin call made by ApplyFooter: arguments and result

vars == <<buf, formats, max_size, embedded_depth, fragmented, scan_windows,
          records, files, pc, pi, off, emb, call>>

None == "None"

Min(a, b) == IF a < b THEN a ELSE b

SetMin(S) == CHOOSE x \in S : \A y \in S : x <= y

SetMax(S) == CHOOSE x \in S : \A y \in S : x >= y

(***************************************************************************)
(* bytes / mmap primitives                                                 *)
(***************************************************************************)

\* b[lo:hi] for 0 <= lo: the bytes at offsets lo .. min(hi, len(b)) - 1
Slice(b, lo, hi) == SubSeq(b, lo + 1, Min(hi, Len(b)))

\* sub occurs in b at offset i
MatchAt(b, sub, i) ==
    /\ i >= 0
    /\ i + Len(sub) <= Len(b)
    /\ \A k \in 1..Len(sub) : b[i + k] = sub[k]

\* b.find(sub, lo, hi): lowest offset of sub inside b[lo:hi], or -1
Find(b, sub, lo, hi) ==
    LET top == Min(hi, Len(b))
        hits == {i \in lo..(top - Len(sub)) : MatchAt(b, sub, i)}
    IN  IF hits = {} THEN -1 ELSE SetMin(hits)

\* b.rfind(sub): highest offset of sub in b, or -1
RFind(b, sub) ==
    LET hits == {i \in 0..(Len(b) - Len(sub)) : MatchAt(b, sub, i)}
    IN  IF hits = {} THEN -1 ELSE SetMax(hits)

\* sub in b
Contains(b, sub) == Find(b, sub, 0, Len(b)) /= -1

StartsWith(b, sub) == MatchAt(b, sub, 0)

EndsWith(b, sub) == MatchAt(b, sub, Len(b) - Len(sub))

(***************************************************************************)
(* Signatures                                                              *)
(***************************************************************************)

SOI == <<255, 216>>

EOI == <<255, 217>>

SOS == <<255, 218>>

PDF_HEADER == <<37, 80, 68, 70, 45>>

EOF == <<37, 37, 69, 79, 70>>

LFH == <<80, 75, 3, 4>>

EOCD == <<80, 75, 5, 6>>

EOCD64_LOC == <<80, 75, 6, 7>>

EOCD64 == <<80, 75, 6, 6>>

\* the fixed part of an EOCD record, struct "<4sHHHHIIH"
EOCD_SIZE == 22

\* what find_footer adds to the offset of a ZIP64 EOCD record
EOCD64_MIN == 56

Formats == {"jpeg", "pdf", "zip"}

\* plugin.headers()[0]
Header(fmt) ==
    CASE fmt = "jpeg" -> SOI
      [] fmt = "pdf"  -> PDF_HEADER
      [] fmt = "zip"  -> LFH

(***************************************************************************)
(* JPEG plugin                                                             *)
(***************************************************************************)

JpegFindFooter(b, h_off, max_scan) ==
    LET start == h_off + 2
        end_search == Min(Len(b), h_off + max_scan)
        eoi == Find(b, EOI, start, end_search)
    IN  IF eoi /= -1 THEN eoi + 2 ELSE -1

JpegValidate(data) ==
    IF ~(StartsWith(data, SOI) /\ EndsWith(data, EOI))
    THEN FALSE
    ELSE Contains(data, SOS)

\* a bridge that looks for FF D9 up to the end of the buffer, past max_span
JpegBridgeUnbounded(b, h_off, max_span) ==
    LET scan == Slice(b, h_off, Len(b))
        pos == Find(scan, EOI, 0, Len(scan))
    IN  IF pos /= -1 THEN h_off + pos + 2 ELSE -1

JpegBridge(b, h_off, max_span) ==
    LET end_search == Min(Len(b), h_off + max_span)
        scan == Slice(b, h_off, end_search)
        pos == Find(scan, EOI, 0, Len(scan))
    IN  IF pos /= -1 THEN h_off + pos + 2 ELSE -1

(***************************************************************************)
(* PDF plugin                                                              *)
(***************************************************************************)

PdfFindFooter(b, h_off, max_scan) ==
    LET end_search == Min(Len(b), h_off + max_scan)
        window == Slice(b, h_off, end_search)
        last == RFind(window, EOF)
    IN  IF last = -1 THEN -1 ELSE h_off + last + Len(EOF)

\* the startxref inspection returns True on every path
PdfValidate(data) ==
    IF ~StartsWith(data, PDF_HEADER) THEN FALSE
    ELSE IF ~Contains(data, EOF) THEN FALSE
    ELSE TRUE

PdfBridge(b, h_off, max_span) ==
    LET end_search == Min(Len(b), h_off + max_span)
        window == Slice(b, h_off, end_search)
        pos == Find(window, EOF, 0, Len(window))
    IN  IF pos /= -1 THEN h_off + pos + Len(EOF) ELSE -1

(***************************************************************************)
(* ZIP plugin                                                              *)
(***************************************************************************)

\* the comment length field: the last H of "<4sHHHHIIH", little-endian
ComLen(view) == view[21] + 256 * view[22]

ParseEocdEnd(b, eocd_off_abs, end_search_abs) ==
    IF eocd_off_abs + EOCD_SIZE > end_search_abs
    THEN eocd_off_abs + EOCD_SIZE
    ELSE LET view == Slice(b, eocd_off_abs, eocd_off_abs + EOCD_SIZE)
         IN  IF Len(view) /= EOCD_SIZE
             THEN eocd_off_abs + EOCD_SIZE       \* struct.error
             ELSE Min(eocd_off_abs + EOCD_SIZE + ComLen(view), Len(b))

ZipFindFooter(b, h_off, max_scan) ==
    LET end_search == Min(Len(b), h_off + max_scan)
        window == Slice(b, h_off, end_search)
        pos64loc == RFind(window, EOCD64_LOC)
        pos64 == RFind(window, EOCD64)
        poseocd == RFind(window, EOCD)
    IN  IF pos64loc /= -1 /\ pos64 /= -1
        THEN IF poseocd /= -1 /\ poseocd > pos64
             THEN h_off + poseocd + EOCD_SIZE
             ELSE h_off + pos64 + EOCD64_MIN
        ELSE IF poseocd /= -1
             THEN ParseEocdEnd(b, h_off + poseocd, end_search)
             ELSE -1

ZipValidate(data) ==
    /\ Contains(data, LFH)
    /\ \/ Contains(data, EOCD)
       \/ Contains(data, EOCD64)
       \/ Contains(data, EOCD64_LOC)

ZipBridge(b, h_off, max_span) ==
    LET end_search == Min(Len(b), h_off + max_span)
        window == Slice(b, h_off, end_search)
        p1 == Find(window, EOCD, 0, Len(window))
        p2 == Find(window, EOCD64_LOC, 0, Len(window))
        p3 == Find(window, EOCD64, 0, Len(window))
    IN  IF p1 /= -1 THEN ParseEocdEnd(b, h_off + p1, end_search)
        ELSE IF p2 /= -1 THEN h_off + p2 + Len(EOCD64_LOC)
        ELSE IF p3 /= -1 THEN h_off + p3 + Len(EOCD64)
        ELSE -1

(***************************************************************************)
(* Dispatch on the plugin                                                  *)
(***************************************************************************)

FindFooter(fmt, b, h_off, max_scan) ==
    CASE fmt = "jpeg" -> JpegFindFooter(b, h_off, max_scan)
      [] fmt = "pdf"  -> PdfFindFooter(b, h_off, max_scan)
      [] fmt = "zip"  -> ZipFindFooter(b, h_off, max_scan)

FragmentedTryBridge(fmt, b, h_off, max_span) ==
    CASE fmt = "jpeg" -> JpegBridge(b, h_off, max_span)
      [] fmt = "pdf"  -> PdfBridge(b, h_off, max_span)
      [] fmt = "zip"  -> ZipBridge(b, h_off, max_span)

Validate(fmt, data) ==
    CASE fmt = "jpeg" -> JpegValidate(data)
      [] fmt = "pdf"  -> PdfValidate(data)
      [] fmt = "zip"  -> ZipValidate(data)

(***************************************************************************)
(* Artifact names and the byte sink                                        *)
(***************************************************************************)

HexDigit(d) ==
    <<"0", "1", "2", "3", "4", "5", "6", "7",
      "8", "9", "a", "b", "c", "d", "e", "f">>[d + 1]

\* format(n, "0{w}x"): lowercase hex, zero-padded to at least w digits
RECURSIVE Hex(_, _)
Hex(n, w) ==
    IF n < 16 /\ w <= 1
    THEN HexDigit(n)
    ELSE Hex(n \div 16, w - 1) \o HexDigit(n % 16)

CandidateName(fmt, h_off) == fmt \o "_" \o Hex(h_off, 12)

EmbeddedName(parent_name, fmt, h) == parent_name \o "__" \o fmt \o "_" \o Hex(h, 8)

Ext(fmt) ==
    CASE fmt = "jpeg" -> ".jpg"
      [] fmt = "pdf"  -> ".pdf"
      [] fmt = "zip"  -> ".zip"
      [] OTHER        -> ".bin"

\* the path _emit_file writes and returns
OutPath(fmt, name) == "out/carved/" \o name \o Ext(fmt)

\* the file system after _emit_file(fmt, name, data): open(out_path, 'wb')
EmitFile(fs, fmt, name, data) ==
    LET out_path == OutPath(fmt, name)
    IN  [p \in DOMAIN fs \cup {out_path} |-> IF p = out_path THEN data ELSE fs[p]]

CarveRecord(fmt, start, end, size, out_path, validated, embedded_parent, notes) ==
    [fmt |-> fmt, start |-> start, end |-> end, size |-> size,
     out_path |-> out_path, validated |-> validated,
     embedded_parent |-> embedded_parent, notes |-> notes]

(***************************************************************************)
(* Carver._scan: one action per iteration of its loops                     *)
(***************************************************************************)

\* self.opts.scan_windows.get(plugin.fmt, self.opts.max_size)
Window(fmt) ==
    IF fmt \in DOMAIN scan_windows THEN scan_windows[fmt] ELSE max_size

NoFrame ==
    [parent_fmt |-> None, data |-> <<>>, depth |-> 0, parent_name |-> None,
     pi |-> 0, off |-> 0, end |-> 0]

NoCall == [fmt |-> None, h_off |-> 0, max_scan |-> 0, end |-> 0]

\* the plugin of the current pass of `for plugin in self.plugins`
ScanPlugin == formats[pi]

\* h = buf.find(magic_list[0], off)
ScanHeader == Find(buf, Header(ScanPlugin), off, Len(buf))

\* end = plugin.find_footer(buf, h, window)
ScanFooter(h) == FindFooter(ScanPlugin, buf, h, Window(ScanPlugin))

\* plugin.fragmented_try_bridge(buf, h, window, chunk_size)
ScanBridge(h) == FragmentedTryBridge(ScanPlugin, buf, h, Window(ScanPlugin))

\* end, after the bridge that is tried when find_footer fails and fragmented is on
ScanEnd(h) ==
    IF ScanFooter(h) = -1 /\ fragmented THEN ScanBridge(h) ELSE ScanFooter(h)

\* used_fragment
ScanUsedFragment(h) ==
    ScanFooter(h) = -1 /\ fragmented /\ ScanBridge(h) /= -1

\* a size test that forgets max_size
ScanSizeRejectedNoCap(h, end) == (end - h) <= 0

\* size <= 0 or size > self.opts.max_size
ScanSizeRejected(h, end) == (end - h) <= 0 \/ (end - h) > max_size

\* a retry that stays on the header
ScanRetrySame(h) == h

\* off = h + 1, the cursor after a candidate that is not carved
ScanRetry(h) == h + 1

InScanLoop == pc = "scan" /\ pi <= Len(formats)

\* the while loop of a plugin ends: off >= total_len, or no header is left
ScanNextPlugin ==
    /\ InScanLoop
    /\ (off >= Len(buf) \/ ScanHeader = -1)
    /\ pi' = pi + 1
    /\ off' = 0
    /\ UNCHANGED <<buf, formats, max_size, embedded_depth, fragmented,
                   scan_windows, records, files, pc, emb, call>>

\* no footer (and no bridge): off = h + 1
ScanMiss ==
    /\ InScanLoop
    /\ off < Len(buf)
    /\ \E h \in {ScanHeader} :
         /\ h /= -1
         /\ \E end \in {ScanEnd(h)} :
              /\ end = -1
              /\ off' = ScanRetry(h)
    /\ UNCHANGED <<buf, formats, max_size, embedded_depth, fragmented,
                   scan_windows, records, files, pc, pi, emb, call>>

\* a footer, but the size is out of the envelope: off = h + 1; continue
ScanReject ==
    /\ InScanLoop
    /\ off < Len(buf)
    /\ \E h \in {ScanHeader} :
         /\ h /= -1
         /\ \E end \in {ScanEnd(h)} :
              /\ end /= -1
              /\ ScanSizeRejected(h, end)
              /\ off' = ScanRetry(h)
    /\ UNCHANGED <<buf, formats, max_size, embedded_depth, fragmented,
                   scan_windows, records, files, pc, pi, emb, call>>

\* a carve: the artifact is written, the record appended, and the carved
\* bytes are handed to _scan_memory_for_embedded when embedded_depth > depth
ScanCarve ==
    /\ InScanLoop
    /\ off < Len(buf)
    /\ \E h \in {ScanHeader} :
         /\ h /= -1
         /\ \E end \in {ScanEnd(h)} :
              /\ end /= -1
              /\ ~ScanSizeRejected(h, end)
              /\ \E data \in {Slice(buf, h, end)}, name \in {CandidateName(ScanPlugin, h)} :
                   /\ files' = EmitFile(files, ScanPlugin, name, data)
                   /\ records' = Append(records,
                         CarveRecord(ScanPlugin, h, end, end - h,
                                     OutPath(ScanPlugin, name),
                                     Validate(ScanPlugin, data), None,
                                     IF ScanUsedFragment(h)
                                     THEN "fragmented-bridge" ELSE None))
                   /\ IF embedded_depth > 0
                      THEN /\ pc' = "embedded"
                           /\ emb' = [parent_fmt |-> ScanPlugin, data |-> data,
                                      depth |-> 1, parent_name |-> name,
                                      pi |-> 1, off |-> 0, end |-> end]
                           /\ off' = off
                      ELSE /\ off' = end
                           /\ UNCHANGED <<pc, emb>>
    /\ UNCHANGED <<buf, formats, max_size, embedded_depth, fragmented,
                   scan_windows, pi, call>>

\* every plugin has scanned the view: _scan returns
ScanDone ==
    /\ pc = "scan"
    /\ pi > Len(formats)
    /\ pc' = "done"
    /\ UNCHANGED <<buf, formats, max_size, embedded_depth, fragmented,
                   scan_windows, records, files, pi, off, emb, call>>

(***************************************************************************)
(* Carver._scan_memory_for_embedded                                        *)
(***************************************************************************)

InEmbLoop == pc = "embedded" /\ emb.pi <= Len(formats)

EmbPlugin == formats[emb.pi]

\* if plugin.fmt == parent_plugin.fmt: continue
EmbSkipsPlugin == EmbPlugin = emb.parent_fmt

\* a header search that reads the image instead of the parent's bytes
EmbHeaderInImage == Find(buf, Header(EmbPlugin), emb.off, Len(buf))

\* h = data.find(next(iter(plugin.headers())), off)
EmbHeader == Find(emb.data, Header(EmbPlugin), emb.off, Len(emb.data))

\* end = plugin.find_footer(data, h, window); no bridge is tried here
EmbEnd(h) == FindFooter(EmbPlugin, emb.data, h, Window(EmbPlugin))

\* end != -1 and 0 < (end - h) <= self.opts.max_size
EmbAccepted(h, end) == end /= -1 /\ 0 < (end - h) /\ (end - h) <= max_size

\* the parent's own format is skipped; a plugin's loop ends when no header is left
EmbNextPlugin ==
    /\ InEmbLoop
    /\ (EmbSkipsPlugin \/ EmbHeader = -1)
    /\ emb' = [emb EXCEPT !.pi = @ + 1, !.off = 0]
    /\ UNCHANGED <<buf, formats, max_size, embedded_depth, fragmented,
                   scan_windows, records, files, pc, pi, off, call>>

EmbCarve ==
    /\ InEmbLoop
    /\ ~EmbSkipsPlugin
    /\ \E h \in {EmbHeader} :
         /\ h /= -1
         /\ \E end \in {EmbEnd(h)} :
              /\ EmbAccepted(h, end)
              /\ \E sub \in {Slice(emb.data, h, end)},
                    name \in {EmbeddedName(emb.parent_name, EmbPlugin, h)} :
                   /\ files' = EmitFile(files, EmbPlugin, name, sub)
                   /\ records' = Append(records,
                         CarveRecord(EmbPlugin, h, end, end - h,
                                     OutPath(EmbPlugin, name),
                                     Validate(EmbPlugin, sub),
                                     emb.parent_name, "embedded"))
                   /\ emb' = [emb EXCEPT !.off = end]
    /\ UNCHANGED <<buf, formats, max_size, embedded_depth, fragmented,
                   scan_windows, pc, pi, off, call>>

EmbMiss ==
    /\ InEmbLoop
    /\ ~EmbSkipsPlugin
    /\ \E h \in {EmbHeader} :
         /\ h /= -1
         /\ \E end \in {EmbEnd(h)} :
              /\ ~EmbAccepted(h, end)
              /\ emb' = [emb EXCEPT !.off = h + 1]
    /\ UNCHANGED <<buf, formats, max_size, embedded_depth, fragmented,
                   scan_windows, records, files, pc, pi, off, call>>

\* _scan_memory_for_embedded returns into _scan, which sets off = end
EmbReturn ==
    /\ pc = "embedded"
    /\ emb.pi > Len(formats)
    /\ pc' = "scan"
    /\ off' = emb.end
    /\ emb' = NoFrame
    /\ UNCHANGED <<buf, formats, max_size, embedded_depth, fragmented,
                   scan_windows, records, files, pi, call>>

(***************************************************************************)
(* Inputs: images built from format markers, and the options of a run      *)
(***************************************************************************)

\* longest free sequence of markers an image is built from
MaxChunks == 2

\* largest embedded_depth tried
MaxDepth == 2

\* largest max_scan handed to find_footer on its own
MaxScan == 48

\* an EOCD record with comment length n (the comment itself follows it)
EocdRecord(n) ==
    EOCD \o [i \in 1..16 |-> 0] \o <<n % 256, n \div 256>>

ChunkBytes(c) ==
    CASE c = "SOI"   -> SOI
      [] c = "EOI"   -> EOI
      [] c = "SOS"   -> SOS
      [] c = "PDFH"  -> PDF_HEADER
      [] c = "PDFE"  -> EOF
      [] c = "LFH"   -> LFH
      [] c = "EOCD0" -> EocdRecord(0)
      [] c = "EOCD2" -> EocdRecord(2)
      [] c = "EOCDF" -> EocdRecord(65535)
      [] c = "SIG"   -> EOCD                  \* an EOCD cut off after its signature
      [] c = "LOC"   -> EOCD64_LOC
      [] c = "E64"   -> EOCD64
      [] c = "Z"     -> <<0>>

\* the markers free sequences are built from (the others occur in Scenarios)
Chunks == {"SOI", "EOI", "PDFH", "PDFE", "LFH", "EOCD2", "Z"}

RECURSIVE Flatten(_)
Flatten(cs) ==
    IF cs = <<>> THEN <<>> ELSE ChunkBytes(Head(cs)) \o Flatten(Tail(cs))

SeqsUpTo(S, n) == UNION {[1..k -> S] : k \in 0..n}

\* the layouts of section 8 of the specification and nestings of them
Scenarios ==
    { <<"SOI", "SOS", "Z", "EOI">>,
      <<"PDFH", "PDFE", "Z", "PDFE">>,
      <<"LFH", "Z", "EOCD2", "Z", "Z">>,
      <<"PDFH", "Z", "SOI", "SOS", "EOI", "PDFE">>,
      <<"Z", "SOI", "Z", "Z", "EOI">>,
      <<"SOI", "EOI", "SOI", "EOI">>,
      <<"SOI", "SOI", "EOI", "EOI">>,
      <<"PDFH", "LFH", "SOI", "EOI", "EOCD0", "PDFE">>,
      <<"PDFH", "SOI", "PDFH", "PDFE", "EOI", "PDFE">>,
      <<"PDFH", "LFH", "LOC", "PDFE">>,
      <<"SOI", "LFH", "E64", "EOI">>,
      <<"LFH", "LOC", "Z", "LFH", "E64">>,
      <<"LFH", "E64", "LOC", "EOCD2", "Z", "Z">>,
      <<"LFH", "EOCD0", "E64", "LOC">>,
      <<"LFH", "EOCDF", "Z">>,
      <<"LFH", "EOCD0", "LFH", "EOCD2", "Z", "Z", "Z">>,
      <<"Z", "PDFH", "SOI", "EOI", "PDFE">>,
      <<"LFH", "SIG">>,
      <<"SOI", "LFH", "SIG", "EOI">>,
      <<"PDFH", "SOI", "EOI", "PDFE", "LFH", "EOCD2", "Z", "Z", "LFH", "EOCD0">> }

Images == {Flatten(cs) : cs \in SeqsUpTo(Chunks, MaxChunks) \cup Scenarios}

\* formats comes from the command line unchecked for repeats: every single
\* format, every ordered pair of two formats, the default list, and two
\* lists that name a format twice
FormatLists ==
    { <<"jpeg">>, <<"pdf">>, <<"zip">>,
      <<"jpeg", "pdf">>, <<"pdf", "jpeg">>, <<"jpeg", "zip">>,
      <<"zip", "jpeg">>, <<"pdf", "zip">>, <<"zip", "pdf">>,
      <<"jpeg", "pdf", "zip">>,
      <<"jpeg", "jpeg">>, <<"zip", "pdf", "zip">> }

MaxSizes == {8, 40}

\* no entry (the .get default, max_size, applies), a short span, a long span
ScanWindows ==
    {[f \in {} |-> 0], [f \in Formats |-> 4], [f \in Formats |-> 64]}

Init ==
    /\ buf \in Images
    /\ formats \in FormatLists
    /\ max_size \in MaxSizes
    /\ embedded_depth \in 0..MaxDepth
    /\ fragmented \in BOOLEAN
    /\ scan_windows \in ScanWindows
    /\ records = <<>>
    /\ files = [p \in {} |-> <<>>]
    /\ pc = "scan"
    /\ pi = 1
    /\ off = 0
    /\ emb = NoFrame
    /\ call = NoCall

Next ==
    \/ ScanNextPlugin
    \/ ScanMiss
    \/ ScanReject
    \/ ScanCarve
    \/ ScanDone
    \/ EmbNextPlugin
    \/ EmbCarve
    \/ EmbMiss
    \/ EmbReturn

Spec == Init /\ [][Next]_vars

\* the runs followed to their end: every image, under the default formats
\* list, a repeated format and a pair, with the deepest recursion
InitLive ==
    /\ Init
    /\ formats \in {<<"jpeg", "pdf", "zip">>, <<"zip", "pdf", "zip">>, <<"pdf", "jpeg">>}
    /\ embedded_depth = MaxDepth

\* the program is one thread that runs to completion
FairSpec == InitLive /\ [][Next]_vars /\ WF_vars(Next)

(***************************************************************************)
(* find_footer on its own: a view, a header offset and a max_scan          *)
(***************************************************************************)

HeaderOffsets(fmt, b) == {h \in 0..Len(b) : MatchAt(b, Header(fmt), h)}

InitFooter ==
    /\ buf \in Images
    /\ formats = <<>>
    /\ max_size = 0
    /\ embedded_depth = 0
    /\ fragmented = FALSE
    /\ scan_windows = [f \in {} |-> 0]
    /\ records = <<>>
    /\ files = [p \in {} |-> <<>>]
    /\ pc = "footer"
    /\ pi = 1
    /\ off = 0
    /\ emb = NoFrame
    /\ call = NoCall

ApplyFooter ==
    /\ pc = "footer"
    /\ \E fmt \in Formats :
         \E h \in HeaderOffsets(fmt, buf) :
           \E max_scan \in 0..MaxScan :
             call' = [fmt |-> fmt, h_off |-> h, max_scan |-> max_scan,
                      end |-> FindFooter(fmt, buf, h, max_scan)]
    /\ pc' = "called"
    /\ UNCHANGED <<buf, formats, max_size, embedded_depth, fragmented,
                   scan_windows, records, files, pi, off, emb>>

NextFooter == ApplyFooter

SpecFooter == InitFooter /\ [][NextFooter]_vars

(***************************************************************************)
(* Properties                                                              *)
(***************************************************************************)

Range(f) == {f[i] : i \in DOMAIN f}

TopLevel(r) == r.embedded_parent = None

NoRepeats(s) == \A i, j \in DOMAIN s : i /= j => s[i] /= s[j]

\* C1: the top-level records of one plugin are pairwise disjoint: a later
\* record of the plugin starts at or after the end of every earlier one.
C1_DisjointPerPlugin ==
    \A i, j \in DOMAIN records :
        ( /\ i < j
          /\ TopLevel(records[i])
          /\ TopLevel(records[j])
          /\ records[i].fmt = records[j].fmt )
        => records[j].start >= records[i].end

\* C1, for a formats list that names no format twice (holds)
C1_DisjointNoRepeats == NoRepeats(formats) => C1_DisjointPerPlugin

\* the candidate the current iteration looks at is out of the size envelope
ScanCandidateOversized ==
    /\ InScanLoop
    /\ off < Len(buf)
    /\ ScanHeader /= -1
    /\ ScanEnd(ScanHeader) /= -1
    /\ \/ ScanEnd(ScanHeader) - ScanHeader <= 0
       \/ ScanEnd(ScanHeader) - ScanHeader > max_size

EmbCandidateOversized ==
    /\ InEmbLoop
    /\ EmbPlugin /= emb.parent_fmt
    /\ EmbHeader /= -1
    /\ EmbEnd(EmbHeader) /= -1
    /\ \/ EmbEnd(EmbHeader) - EmbHeader <= 0
       \/ EmbEnd(EmbHeader) - EmbHeader > max_size

C2_Envelope ==
    \A i \in DOMAIN records :
        LET r == records[i]
        IN  /\ r.end > r.start
            /\ r.size = r.end - r.start
            /\ 0 < r.size
            /\ r.size <= max_size

C2_SkipStep ==
    /\ ScanCandidateOversized =>
          (records' = records /\ files' = files /\ off' = ScanHeader + 1)
    /\ EmbCandidateOversized =>
          (records' = records /\ files' = files /\ emb'.off = EmbHeader + 1)

\* C2: every record, top-level or embedded, has end > start, size = end - start
\* and 0 < size <= max_size; a candidate whose size is <= 0 or > max_size adds
\* no record and moves the cursor to header + 1.
C2_SizeEnvelope == [](C2_Envelope) /\ [][C2_SkipStep]_vars

\* C2 witness: an oversized candidate at off - 1 has just been skipped in a run
\* that has carved records, one of them embedded
C2_Witness ==
    /\ InScanLoop
    /\ off > 0
    /\ MatchAt(buf, Header(ScanPlugin), off - 1)
    /\ LET e == FindFooter(ScanPlugin, buf, off - 1, Window(ScanPlugin))
       IN  e /= -1 /\ e - (off - 1) > max_size
    /\ \E i \in DOMAIN records : TopLevel(records[i])
    /\ \E i \in DOMAIN records : ~TopLevel(records[i])

\* C9: the out_path values of the records of a run are pairwise distinct.
C9_DistinctPaths ==
    \A i, j \in DOMAIN records :
        i /= j => records[i].out_path /= records[j].out_path

\* C9, for a formats list that names no format twice (holds)
C9_DistinctNoRepeats == NoRepeats(formats) => C9_DistinctPaths

\* the record of the artifact an embedded record was found in
IsParentOf(r, child) == OutPath(r.fmt, child.embedded_parent) = r.out_path

\* what scanning the artifact of record r for format q as section 4.3.1 does
\* meets first: the first header of q in it and the end find_footer gives
FirstHeaderIn(r, q) ==
    Find(files[r.out_path], Header(q), 0, Len(files[r.out_path]))

FirstEndIn(r, q) ==
    FindFooter(q, files[r.out_path], FirstHeaderIn(r, q), Window(q))

FirstCarveIn(r, q) ==
    /\ FirstHeaderIn(r, q) /= -1
    /\ FirstEndIn(r, q) /= -1
    /\ 0 < FirstEndIn(r, q) - FirstHeaderIn(r, q)
    /\ FirstEndIn(r, q) - FirstHeaderIn(r, q) <= max_size

\* C3: with embedded_depth = d every artifact carved at depth k < d, embedded
\* artifacts included, is scanned for files of the other formats: when
\* embedded_depth >= 2, what an embedded artifact holds gets a record of its own.
C3_RecursesToDepth ==
    (pc = "done" /\ embedded_depth >= 2) =>
        \A i \in DOMAIN records :
            LET r == records[i]
            IN  ~TopLevel(r) =>
                \A q \in Range(formats) \ {r.fmt} :
                    FirstCarveIn(r, q) =>
                        \E j \in DOMAIN records :
                            /\ IsParentOf(r, records[j])
                            /\ records[j].fmt = q
                            /\ records[j].start = FirstHeaderIn(r, q)
                            /\ records[j].end = FirstEndIn(r, q)

\* JPEG headers of the image whose scan window holds no FF D9
JpegUnterminated ==
    {h \in HeaderOffsets("jpeg", buf) :
        Find(buf, EOI, h + 2, Min(Len(buf), h + Window("jpeg"))) = -1}

\* an FF D9 follows the header somewhere in the image
LaterEoi(h) == Find(buf, EOI, h + 2, Len(buf)) /= -1

JpegRecordsAt(h) ==
    {i \in DOMAIN records :
        /\ TopLevel(records[i])
        /\ records[i].fmt = "jpeg"
        /\ records[i].start = h}

\* C4 as stated: a JPEG header with no FF D9 in its scan window gets no record
\* when fragmented is off, and exactly one record, with notes
\* "fragmented-bridge", when fragmented is on and an FF D9 follows later.
C4_BridgeRecovers ==
    (pc = "done" /\ formats = <<"jpeg">>) =>
        \A h \in JpegUnterminated :
            /\ ~fragmented => JpegRecordsAt(h) = {}
            /\ (fragmented /\ LaterEoi(h) /\ Len(buf) - h <= max_size) =>
                  \E i \in JpegRecordsAt(h) :
                      /\ JpegRecordsAt(h) = {i}
                      /\ records[i].notes = "fragmented-bridge"

\* C4 as amended: such a header gets no record whether fragmented is on or
\* off, and no JPEG record carries the note "fragmented-bridge".
C4_BridgeRedundant ==
    /\ \A h \in JpegUnterminated : JpegRecordsAt(h) = {}
    /\ \A i \in DOMAIN records :
           records[i].fmt = "jpeg" => records[i].notes /= "fragmented-bridge"

\* C4 witness: a finished run with fragmented on over an image whose JPEG
\* header has its FF D9 beyond the scan window
C4_Witness ==
    /\ pc = "done"
    /\ fragmented
    /\ "jpeg" \in Range(formats)
    /\ \E h \in JpegUnterminated : LaterEoi(h) /\ Len(buf) - h <= max_size

\* the PDF header, the end of the PDF carve and the JPEG header of an image
\* that holds one of each
C5_p == CHOOSE h \in HeaderOffsets("pdf", buf) : TRUE

C5_e == PdfFindFooter(buf, C5_p, Window("pdf"))

C5_j == CHOOSE h \in HeaderOffsets("jpeg", buf) : TRUE

\* the image is one PDF at offset C5_p, carved up to C5_e, that holds one
\* complete JPEG at offset C5_j of the image (blob offset C5_j - C5_p); both
\* formats are enabled and embedded_depth = 1
C5_Layout ==
    /\ embedded_depth = 1
    /\ NoRepeats(formats)
    /\ {"jpeg", "pdf"} \subseteq Range(formats)
    /\ Cardinality(HeaderOffsets("pdf", buf)) = 1
    /\ Cardinality(HeaderOffsets("jpeg", buf)) = 1
    /\ HeaderOffsets("zip", buf) = {}
    /\ C5_e /= -1
    /\ C5_e - C5_p <= max_size
    /\ C5_p < C5_j
    /\ JpegFindFooter(buf, C5_j, Window("jpeg")) /= -1
    /\ JpegFindFooter(buf, C5_j, Window("jpeg")) <= C5_e

C5_PdfRecord(r) ==
    r.fmt = "pdf" /\ TopLevel(r) /\ r.start = C5_p /\ r.end = C5_e

C5_EmbeddedJpeg(r) ==
    /\ r.fmt = "jpeg"
    /\ r.embedded_parent = CandidateName("pdf", C5_p)
    /\ r.notes = "embedded"
    /\ r.start = C5_j - C5_p

C5_TopLevelJpeg(r) ==
    r.fmt = "jpeg" /\ TopLevel(r) /\ r.notes = None /\ r.start = C5_j

\* C5 as stated: the run produces exactly two records, the top-level PDF and
\* the JPEG embedded in it at blob offset X.
C5_TwoRecords ==
    (pc = "done" /\ C5_Layout) =>
        /\ Len(records) = 2
        /\ \E i \in DOMAIN records : C5_PdfRecord(records[i])
        /\ \E i \in DOMAIN records : C5_EmbeddedJpeg(records[i])

\* C5 as amended: the run produces exactly three records: the top-level PDF,
\* the JPEG embedded in it at blob offset X, and the same JPEG once more as a
\* top-level record at its image offset, found by the JPEG plugin's own pass.
C5_ThreeRecords ==
    (pc = "done" /\ C5_Layout) =>
        /\ Len(records) = 3
        /\ \E i \in DOMAIN records : C5_PdfRecord(records[i])
        /\ \E i \in DOMAIN records : C5_EmbeddedJpeg(records[i])
        /\ \E i \in DOMAIN records : C5_TopLevelJpeg(records[i])

\* C5 witness: a finished run over such an image whose PDF does not start at
\* offset 0, so blob offsets and image offsets differ
C5_Witness == pc = "done" /\ C5_Layout /\ C5_p > 0

\* C6: an end offset returned by find_footer lies inside the scan window that
\* starts at the header: it is > h and <= min(view length, h + max_scan).
C6_FooterInWindow ==
    (pc = "called" /\ call.end /= -1) =>
        /\ call.end > call.h_off
        /\ call.end <= Min(Len(buf), call.h_off + call.max_scan)

\* the scan window of the call made, and the last occurrence of each ZIP
\* trailer signature in it (offsets relative to the header)
CallWindow ==
    Slice(buf, call.h_off, Min(Len(buf), call.h_off + call.max_scan))

CallLastLoc == RFind(CallWindow, EOCD64_LOC)

CallLastRec == RFind(CallWindow, EOCD64)

CallLastEocd == RFind(CallWindow, EOCD)

\* the comment length field of the EOCD found, bytes 20 and 21 of the record
CallComment ==
    buf[call.h_off + CallLastEocd + 21] + 256 * buf[call.h_off + CallLastEocd + 22]

\* the EOCD found and its comment lie inside the scan window
CallEocdInWindow ==
    /\ CallLastEocd + EOCD_SIZE <= Len(CallWindow)
    /\ CallLastEocd + EOCD_SIZE + CallComment <= Len(CallWindow)

\* C7: with a ZIP64 locator and a ZIP64 record in the window, find_footer
\* returns eocd + 22 + comment_length when the last EOCD lies after the last
\* ZIP64 record, and record + 56 otherwise.
C7_Zip64Footer ==
    (pc = "called" /\ call.fmt = "zip" /\ CallLastLoc /= -1 /\ CallLastRec /= -1) =>
        IF CallLastEocd /= -1 /\ CallLastEocd > CallLastRec
        THEN CallEocdInWindow =>
                 call.end = call.h_off + CallLastEocd + EOCD_SIZE + CallComment
        ELSE call.end = call.h_off + CallLastRec + EOCD64_MIN

FirstBridgeIn(r, q) ==
    FragmentedTryBridge(q, files[r.out_path], FirstHeaderIn(r, q), Window(q))

\* C8: the embedded scan runs the algorithm of the top-level scan: with
\* fragmented on, a header in a parent blob for which find_footer returns none
\* and fragmented_try_bridge returns an end gets an embedded record.
C8_EmbeddedBridges ==
    (pc = "done" /\ fragmented /\ embedded_depth >= 1) =>
        \A i \in DOMAIN records :
            LET r == records[i]
            IN  TopLevel(r) =>
                \A q \in Range(formats) \ {r.fmt} :
                    ( /\ FirstHeaderIn(r, q) /= -1
                      /\ FirstEndIn(r, q) = -1
                      /\ FirstBridgeIn(r, q) /= -1
                      /\ 0 < FirstBridgeIn(r, q) - FirstHeaderIn(r, q)
                      /\ FirstBridgeIn(r, q) - FirstHeaderIn(r, q) <= max_size )
                    => \E j \in DOMAIN records :
                          /\ IsParentOf(r, records[j])
                          /\ records[j].fmt = q
                          /\ records[j].start = FirstHeaderIn(r, q)
                          /\ records[j].end = FirstBridgeIn(r, q)

\* every iteration of a scan loop moves its cursor forward
C10_CursorAdvances ==
    /\ (pc = "scan" /\ pc' = "scan" /\ pi' = pi) =>
          (off' > off /\ off' > ScanHeader)
    /\ (pc = "embedded" /\ pc' = "scan") => off' > off
    /\ (pc = "embedded" /\ pc' = "embedded" /\ emb'.pi = emb.pi) =>
          (emb'.off > emb.off /\ emb'.off > EmbHeader)

\* C10: the scan terminates: the cursor of the top-level loop and of the
\* embedded loop strictly increases on every iteration, and _scan returns.
C10_Terminates == <>(pc = "done") /\ [][C10_CursorAdvances]_vars

\* C10 witness: a finished run whose loops have carved, missed and recursed
C10_Witness ==
    /\ pc = "done"
    /\ Len(records) >= 3
    /\ \E i \in DOMAIN records : ~TopLevel(records[i])
    /\ \E q \in Range(formats) :
           \E h \in HeaderOffsets(q, buf) :
               \A i \in DOMAIN records :
                   ~(TopLevel(records[i]) /\ records[i].fmt = q /\ records[i].start = h)

(***************************************************************************)
(* C11: records stay inside the scanned view, artifacts are not truncated  *)
(***************************************************************************)

\* the view a record was carved from: the image for a top-level record, the
\* parent's carved bytes for an embedded one
C11_ViewLengths(r) ==
    IF TopLevel(r)
    THEN {Len(buf)}
    ELSE {Len(files[records[j].out_path]) :
              j \in {k \in DOMAIN records : IsParentOf(records[k], r)}}

\* C11: for every record, end is at most the length of the view that was
\* scanned, and the artifact written for it holds exactly size = end - start
\* bytes (view[start:end] with no truncation)
C11_NoTruncation ==
    \A i \in DOMAIN records :
        /\ \A n \in C11_ViewLengths(records[i]) : records[i].end <= n
        /\ records[i].size = records[i].end - records[i].start
        /\ Len(files[records[i].out_path]) = records[i].size

====
